---- MODULE Spec2Model ----
(***************************************************************************)
(* A model of SublimeFrecentHistory (src/frecent_history.py): the master   *)
(* history, the window histories that share its entries, the pending       *)
(* removals, the save cycle, the persisted file and the quick panel.        *)
(*                                                                          *)
(* A history (a Python dict, which keeps insertion order) is a sequence of  *)
(* items [path, entry]; an entry is [added, last_seen, inserts].  Paths are *)
(* numbers, ordered as json.dump(sort_keys=True) orders the path strings.   *)
(*                                                                          *)
(* Entries are Python objects shared between the master history and the     *)
(* window histories.  The only writes to an entry go through the master     *)
(* history (record_seen_path_in_window) or through the freshly parsed       *)
(* entries that a load then installs in the master history                  *)
(* (merge_histories), so an object the master history no longer holds is    *)
(* never written again: a window history's value for a path is either       *)
(* Shared (the master history's own object) or Stale(e), the last value of  *)
(* an object the master history dropped.                                    *)
(***************************************************************************)
EXTENDS Integers, Sequences, FiniteSets, TLC

VARIABLES
  global_state,  \* the dict global_state of the module
  disk,          \* the file at get_history_path()
  clock,         \* what get_time_seconds() returns
  panel,         \* per window, the quick panel run() showed and its entry_data_list
  recordings,    \* calls of record_seen_path_in_window since the module was loaded
  last           \* the last handler that ran, with what it did

vars == <<global_state, disk, clock, panel, recordings, last>>

----------------------------------------------------------------------------
(* Program constants. *)

SAVE_EVERY == 50

SECONDS_PER_MINUTE == 60

SECONDS_PER_HOUR == SECONDS_PER_MINUTE * 60

SECONDS_PER_DAY == SECONDS_PER_HOUR * 24

SECONDS_PER_WEEK == SECONDS_PER_DAY * 7

----------------------------------------------------------------------------
(* Helpers on sets and sequences. *)

Max(a, b) == IF a >= b THEN a ELSE b

Min(a, b) == IF a <= b THEN a ELSE b

Range(s) == {s[i] : i \in 1..Len(s)}

\* The first Min(n, Len(s)) elements of s: Python's s[:n] for n >= 0.
Take(s, n) == SubSeq(s, 1, Min(n, Len(s)))

\* The increasing enumeration of a finite set of numbers.
RECURSIVE SetToSortedSeq(_)
SetToSortedSeq(S) ==
  IF S = {} THEN <<>>
  ELSE LET m == CHOOSE x \in S : \A y \in S : x <= y
       IN <<m>> \o SetToSortedSeq(S \ {m})

----------------------------------------------------------------------------
(* Histories: dicts from path to entry, in insertion order. *)

Entry(a, l, i) == [added |-> a, last_seen |-> l, inserts |-> i]

Item(p, e) == [path |-> p, entry |-> e]

Keys(h) == {h[i].path : i \in 1..Len(h)}

Has(h, p) == p \in Keys(h)

\* h[p], for p in h.
Get(h, p) == (CHOOSE it \in Range(h) : it.path = p).entry

\* h[p] = e: an existing key keeps its place, a new key goes last.
Put(h, p, e) ==
  IF Has(h, p)
  THEN [i \in 1..Len(h) |-> IF h[i].path = p THEN Item(p, e) ELSE h[i]]
  ELSE Append(h, Item(p, e))

\* h.pop(p, None) for every p of the set S.
PopAll(h, S) == SelectSeq(h, LAMBDA it : it.path \notin S)

\* The dict as a function of its keys (Python's dict equality ignores order).
AsMap(h) == [p \in Keys(h) |-> Get(h, p)]

----------------------------------------------------------------------------
(* Frecency. *)

\* recency_score(ds)
recency_score(ds) ==
  IF ds < SECONDS_PER_MINUTE THEN 8
  ELSE IF ds < SECONDS_PER_HOUR THEN 6
  ELSE IF ds < SECONDS_PER_DAY THEN 4
  ELSE IF ds < SECONDS_PER_WEEK THEN 2
  ELSE 1

\* frecency(age, count) = (count / age) * recency_score(age), kept as the exact
\* fraction num / den (den = age > 0).  The code computes it in floating
\* point; for the ages (below 2^21) and counts (below 2^7) of this model two
\* different fractions differ by far more than the rounding error, so the
\* order of the floats is the order of the fractions.
frecency(age, count) == [num |-> count * recency_score(age), den |-> age]

\* entry_frecency without the clamp of the age to 100 seconds.
entry_frecency_unclamped(entry, now) ==
  frecency(now - entry.last_seen, entry.inserts)

\* entry_frecency(entry, now)
entry_frecency(entry, now) ==
  frecency(Max(100, now - entry.last_seen), entry.inserts)

\* Comparison of two scores (fractions with positive denominators).
ScoreLess(s, t) == s.num * t.den < t.num * s.den

ScoreGeq(s, t) == ~ScoreLess(s, t)

\* InsertByScore without reverse=True: the lowest score first.
InsertByScoreAscending(sorted, x, now) ==
  LET higher == {i \in 1..Len(sorted) :
                   ScoreLess(entry_frecency(x.entry, now),
                             entry_frecency(sorted[i].entry, now))}
      at == IF higher = {} THEN Len(sorted) + 1
            ELSE CHOOSE i \in higher : \A j \in higher : i <= j
  IN SubSeq(sorted, 1, at - 1) \o <<x>> \o SubSeq(sorted, at, Len(sorted))

\* InsertByScore for a sort that is not stable: x goes before the items of
\* equal score that came before it.
InsertByScoreTiesFirst(sorted, x, now) ==
  LET lower == {i \in 1..Len(sorted) :
                  ~ScoreLess(entry_frecency(x.entry, now),
                             entry_frecency(sorted[i].entry, now))}
      at == IF lower = {} THEN Len(sorted) + 1
            ELSE CHOOSE i \in lower : \A j \in lower : i <= j
  IN SubSeq(sorted, 1, at - 1) \o <<x>> \o SubSeq(sorted, at, Len(sorted))

\* One step of sorted(..., reverse=True, key=...): x goes before the first
\* item of lower score, hence after every item of equal score that came
\* before it (Python's sort is stable, also under reverse=True).
InsertByScore(sorted, x, now) ==
  LET lower == {i \in 1..Len(sorted) :
                  ScoreLess(entry_frecency(sorted[i].entry, now),
                            entry_frecency(x.entry, now))}
      at == IF lower = {} THEN Len(sorted) + 1
            ELSE CHOOSE i \in lower : \A j \in lower : i <= j
  IN SubSeq(sorted, 1, at - 1) \o <<x>> \o SubSeq(sorted, at, Len(sorted))

\* sorted(entries.items(), reverse=True, key=lambda x: entry_frecency(x[1], now))
RECURSIVE SortedByScore(_, _)
SortedByScore(entries, now) ==
  IF entries = <<>> THEN <<>>
  ELSE InsertByScore(SortedByScore(SubSeq(entries, 1, Len(entries) - 1), now),
                     entries[Len(entries)], now)

\* limit_entries(entries, n, now): a new dict of the n highest scores, holding
\* the same entry objects; entries itself is not written.  (n >= 0: the
\* setting max_master_entries is a count.)
limit_entries(entries, n, now) == Take(SortedByScore(entries, now), n)

----------------------------------------------------------------------------
(* Merge. *)

\* MergeItem with the merger's visit count written over the mergee's.
MergeItemLastWins(mergee_history, it) ==
  IF Has(mergee_history, it.path)
  THEN LET mergee_entry == Get(mergee_history, it.path)
       IN Put(mergee_history, it.path,
              Entry(Min(mergee_entry.added, it.entry.added),
                    Max(mergee_entry.last_seen, it.entry.last_seen),
                    it.entry.inserts))
  ELSE Put(mergee_history, it.path, it.entry)

\* MergeItem without the else branch: a path the mergee lacks is not inserted.
MergeItemSharedOnly(mergee_history, it) ==
  IF Has(mergee_history, it.path)
  THEN LET mergee_entry == Get(mergee_history, it.path)
       IN Put(mergee_history, it.path,
              Entry(Min(mergee_entry.added, it.entry.added),
                    Max(mergee_entry.last_seen, it.entry.last_seen),
                    Max(mergee_entry.inserts, it.entry.inserts)))
  ELSE mergee_history

\* The body of merge_histories' loop for one item of merger_history.
MergeItem(mergee_history, it) ==
  IF Has(mergee_history, it.path)
  THEN LET mergee_entry == Get(mergee_history, it.path)
       IN Put(mergee_history, it.path,
              Entry(Min(mergee_entry.added, it.entry.added),
                    Max(mergee_entry.last_seen, it.entry.last_seen),
                    Max(mergee_entry.inserts, it.entry.inserts)))
  ELSE Put(mergee_history, it.path, it.entry)

\* merge_histories(mergee_history, merger_history): mergee_history after the
\* call (it is updated in place; merger_history is only read).
RECURSIVE merge_histories(_, _)
merge_histories(mergee_history, merger_history) ==
  IF merger_history = <<>> THEN mergee_history
  ELSE merge_histories(MergeItem(mergee_history, Head(merger_history)),
                       Tail(merger_history))

\* h.update(other): every item of other is put into h.
RECURSIVE Update(_, _)
Update(h, other) ==
  IF other = <<>> THEN h
  ELSE Update(Put(h, Head(other).path, Head(other).entry), Tail(other))

----------------------------------------------------------------------------
(* The global state and the persisted file. *)

\* A value that is None in the code: a view without a file name or a window.
None == 0

\* new_history_entry(), when get_time_seconds() returns t.
new_history_entry(t) == Entry(t, t, 0)

\* One window history: the paths whose value is the master history's own
\* entry object (shared), and the paths whose value is an object the master
\* history has dropped, with that object's value (stale).
WindowHistory(shared, stale) == [shared |-> shared, stale |-> stale]

EmptyWindowHistory == WindowHistory({}, <<>>)

WindowKeys(wh) == wh.shared \cup DOMAIN wh.stale

\* window_history[path], for path in the window history.
WindowEntry(gs, w, p) ==
  LET wh == gs.window_histories[w]
  IN IF p \in wh.shared THEN Get(gs.master_history, p) ELSE wh.stale[p]

\* window_history[path] = master_history[path]
ShareInWindow(wh, p) ==
  WindowHistory(wh.shared \cup {p},
                [q \in DOMAIN wh.stale \ {p} |-> wh.stale[q]])

\* The persisted file: missing, present but not JSON (empty or corrupt:
\* json.load raises JSONDecodeError), or a JSON object (a history).
MissingFile == [kind |-> "missing", data |-> <<>>]

InvalidFile == [kind |-> "invalid", data |-> <<>>]

JsonFile(h) == [kind |-> "json", data |-> h]

\* json.dump(h, sort_keys=True): the items in the order of their paths.
SortKeys(h) ==
  LET ks == SetToSortedSeq(Keys(h))
  IN [i \in 1..Len(ks) |-> Item(ks[i], Get(h, ks[i]))]

\* true_every without the first draw (line 35): the first call yields True.
true_every_undrawn(n) == n - 1

\* true_every(n): the generator's place in cycle(range(n)) is the last i it
\* drew.  Construction draws i = 0 (line 35), so the first call after it is
\* the second draw.
true_every(n) == 0

\* next(gen): the generator's new place, and the value it yields (i == 0).
NextPlace(place, n) == (place + 1) % n

Yields(place) == place = 0

\* remove_paths_to_remove without the loop over the window histories.
remove_paths_from_master_only(gs) ==
  [gs EXCEPT !.master_history = PopAll(gs.master_history, gs.paths_to_remove)]

\* remove_paths_to_remove(): every pending path is popped from every window
\* history and from the master history; the pending set itself is kept.
remove_paths_to_remove(gs) ==
  LET gone == gs.paths_to_remove
  IN [gs EXCEPT
        !.window_histories =
           [w \in DOMAIN gs.window_histories |->
              LET wh == gs.window_histories[w]
              IN WindowHistory(wh.shared \ gone,
                               [q \in DOMAIN wh.stale \ gone |-> wh.stale[q]])],
        !.master_history = PopAll(gs.master_history, gone)]

\* A world is what a handler reads and writes, with what it did so far:
\* gs (the global state), disk (the persisted file), recorded (calls of
\* record_seen_path_in_window), saved (calls of save_master_history_to_file),
\* wrote (whether the last save truncated and dumped the file), raised
\* (whether an exception left the handler), opened (the path handed to
\* window.open_file, None if it was not called).
World(gs, d) ==
  [gs |-> gs, disk |-> d, recorded |-> 0, saved |-> 0, wrote |-> FALSE,
   raised |-> FALSE, opened |-> None]

\* EnoughToWrite with >= for >.
AtLeastEnoughToWrite(n_state, n_stored) == 10 * n_state >= 7 * n_stored

\* len(state_master_history) > 0.7 * len(stored_master_history).  The code
\* multiplies in floating point; for fewer than 90 stored entries the double
\* 0.7 * m compares with n as the fraction 7m/10 does (at m = 90 it rounds
\* below 63).
EnoughToWrite(n_state, n_stored) == 10 * n_state > 7 * n_stored

\* save_master_history_to_file with the limited history assigned to the
\* master history.
save_limiting_master_history(world, n, now) ==
  LET gs == remove_paths_to_remove(world.gs)
      opened == IF world.disk.kind = "missing" THEN InvalidFile ELSE world.disk
      stored_master_history == IF opened.kind = "json" THEN opened.data ELSE <<>>
      state_master_history == limit_entries(gs.master_history, n, now)
      write == 10 * Len(state_master_history) > 7 * Len(stored_master_history)
  IN [world EXCEPT
        !.gs = [gs EXCEPT !.master_history = state_master_history],
        !.disk = IF write THEN JsonFile(SortKeys(state_master_history)) ELSE opened,
        !.saved = @ + 1,
        !.wrote = write]

\* save_master_history_to_file without the call of remove_paths_to_remove.
save_without_flush(world, n, now) ==
  LET gs == world.gs
      opened == IF world.disk.kind = "missing" THEN InvalidFile ELSE world.disk
      stored_master_history == IF opened.kind = "json" THEN opened.data ELSE <<>>
      state_master_history == limit_entries(gs.master_history, n, now)
      write == EnoughToWrite(Len(state_master_history), Len(stored_master_history))
  IN [world EXCEPT
        !.disk = IF write THEN JsonFile(SortKeys(state_master_history)) ELSE opened,
        !.saved = @ + 1,
        !.wrote = write]

\* save_master_history_to_file(store_path, now), with max_master_entries = n.
save_master_history_to_file(world, n, now) ==
  LET gs == remove_paths_to_remove(world.gs)
      \* open(store_path, 'a+') creates a missing file, empty.
      opened == IF world.disk.kind = "missing" THEN InvalidFile ELSE world.disk
      stored_master_history == IF opened.kind = "json" THEN opened.data ELSE <<>>
      state_master_history == limit_entries(gs.master_history, n, now)
      write == EnoughToWrite(Len(state_master_history), Len(stored_master_history))
  IN [world EXCEPT
        !.gs = gs,
        !.disk = IF write THEN JsonFile(SortKeys(state_master_history)) ELSE opened,
        !.saved = @ + 1,
        !.wrote = write]

\* load_master_history_from_file(store_path).  A missing file is an IOError,
\* caught; json.load's JSONDecodeError is a ValueError, which `except IOError`
\* does not catch.  Every path of the file gets the parsed file's entry
\* object, merged, as its master entry: a window history that shared the old
\* object keeps the old object, now stale.
load_master_history_from_file(world) ==
  LET gs == world.gs
  IN IF world.disk.kind = "missing" THEN world
     ELSE IF world.disk.kind = "invalid" THEN [world EXCEPT !.raised = TRUE]
     ELSE
       LET stored_master_history == world.disk.data
           replaced == Keys(stored_master_history) \cap Keys(gs.master_history)
           merged == merge_histories(stored_master_history, gs.master_history)
       IN [world EXCEPT
             !.gs.master_history = Update(gs.master_history, merged),
             !.gs.window_histories =
                [w \in DOMAIN gs.window_histories |->
                   LET wh == gs.window_histories[w]
                       dropped == wh.shared \cap replaced
                   IN WindowHistory(
                        wh.shared \ dropped,
                        [q \in DOMAIN wh.stale \cup dropped |->
                           IF q \in dropped THEN Get(gs.master_history, q)
                           ELSE wh.stale[q]])]]

\* record_seen_path_in_window with inserts set to 1 instead of incremented.
record_seen_path_resetting(world, window, path, now, created, n) ==
  LET gs == world.gs
      entry == IF Has(gs.master_history, path) THEN Get(gs.master_history, path)
               ELSE new_history_entry(created)
      seen == Entry(entry.added, now, 1)
      place == NextPlace(gs.save_cycle, SAVE_EVERY)
      recorded ==
        [world EXCEPT
           !.gs.master_history = Put(gs.master_history, path, seen),
           !.gs.window_histories[window] = ShareInWindow(@, path),
           !.gs.save_cycle = place,
           !.recorded = @ + 1]
  IN IF Yields(place) THEN save_master_history_to_file(recorded, n, now)
     ELSE recorded

\* record_seen_path_in_window(window, path, now).  created is what
\* get_time_seconds() returns if the defaultdict has to make the entry; n is
\* max_master_entries, read if the save runs.
record_seen_path_in_window(world, window, path, now, created, n) ==
  LET gs == world.gs
      entry == IF Has(gs.master_history, path) THEN Get(gs.master_history, path)
               ELSE new_history_entry(created)
      seen == Entry(entry.added, now, entry.inserts + 1)
      place == NextPlace(gs.save_cycle, SAVE_EVERY)
      recorded ==
        [world EXCEPT
           !.gs.master_history = Put(gs.master_history, path, seen),
           !.gs.window_histories[window] = ShareInWindow(@, path),
           !.gs.save_cycle = place,
           !.recorded = @ + 1]
  IN IF Yields(place) THEN save_master_history_to_file(recorded, n, now)
     ELSE recorded

\* A view, as record_view_in_window reads it: file_name(), window(), and
\* what os.path.exists(path) answers.
View(path, window, exists) == [path |-> path, window |-> window, exists |-> exists]

\* record_view_in_window without the test of global_state['active'].
record_view_while_active(world, view, now, created, n) ==
  IF /\ view.path # None
     /\ view.window # None
     /\ view.exists
  THEN record_seen_path_in_window(world, view.window, view.path, now, created, n)
  ELSE world

\* record_view_in_window(view, now)
record_view_in_window(world, view, now, created, n) ==
  IF /\ view.path # None
     /\ view.window # None
     /\ ~world.gs.active
     /\ view.exists
  THEN record_seen_path_in_window(world, view.window, view.path, now, created, n)
  ELSE world

\* populate_window_history_from_master(window); under is the set of paths
\* that start with one of window.folders().
populate_window_history_from_master(world, window, under) ==
  LET RECURSIVE Share(_, _)
      Share(wh, ps) ==
        IF ps = {} THEN wh
        ELSE LET q == CHOOSE x \in ps : TRUE
             IN Share(ShareInWindow(wh, q), ps \ {q})
  IN [world EXCEPT
        !.gs.window_histories[window] =
           Share(@, Keys(world.gs.master_history) \cap under)]

\* populate_window_history_from_views(window); views is window.views().
RECURSIVE populate_window_history_from_views(_, _, _, _, _)
populate_window_history_from_views(world, views, now, created, n) ==
  IF views = <<>> THEN world
  ELSE populate_window_history_from_views(
         record_view_in_window(world, Head(views), now, created, n),
         Tail(views), now, created, n)

\* The loop of load_and_populate_state_from_file over sublime.windows():
\* ws lists the windows, host[w] is what the host answers while window w is
\* populated: under and views, and the clock's readings now (line 220) and
\* created (line 88, if an entry is made).
RECURSIVE PopulateWindows(_, _, _, _)
PopulateWindows(world, ws, host, n) ==
  IF ws = <<>> THEN world
  ELSE LET h == host[Head(ws)]
       IN PopulateWindows(
            populate_window_history_from_views(
              populate_window_history_from_master(world, Head(ws), h.under),
              h.views, h.now, h.created, n),
            Tail(ws), host, n)

\* load_and_populate_state_from_file(store_path): an exception of the load
\* leaves before any window is populated.
load_and_populate_state_from_file(world, ws, host, n) ==
  LET loaded == load_master_history_from_file(world)
  IN IF loaded.raised THEN loaded
     ELSE PopulateWindows(loaded, ws, host, n)

\* historied_path_exists without the add to paths_to_remove.
historied_path_exists_forgetting(gs, path, exists) == gs

\* historied_path_exists(path), when os.path.exists(path) answers exists: the
\* global state after it (a missing path joins paths_to_remove).
historied_path_exists(gs, path, exists) ==
  IF exists THEN gs
  ELSE [gs EXCEPT !.paths_to_remove = @ \cup {path}]

----------------------------------------------------------------------------
(* The quick panel. *)

\* OpenStatusFilter(open_status_filter) raises ValueError for any other
\* value; run() then keeps the string, which equals no member of the enum.
OpenStatusFilter == {"opened", "closed", "both"}

\* get_data_list_for_panel keeping a path only when the filter names its
\* status: a filter that is no member of the enum lists nothing.
get_data_list_for_panel_strict(history_keys, open_paths, open_status_filter) ==
  {p \in history_keys :
     \/ open_status_filter = "both"
     \/ (p \in open_paths /\ open_status_filter = "opened")
     \/ (p \notin open_paths /\ open_status_filter = "closed")}

\* get_data_list_for_panel(history, window, open_status_filter): the paths of
\* the items it yields; open_paths are the paths window.find_open_file finds.
get_data_list_for_panel(history_keys, open_paths, open_status_filter) ==
  {p \in history_keys :
     ~ \/ (p \in open_paths /\ open_status_filter = "closed")
       \/ (p \notin open_paths /\ open_status_filter = "opened")}

\* The history run() lists: the master history, or the window's.
PanelHistory(gs, window, use_master) ==
  IF use_master THEN AsMap(gs.master_history)
  ELSE [p \in WindowKeys(gs.window_histories[window]) |-> WindowEntry(gs, window, p)]

\* total_score of run(): zero exactly when every listed entry scores zero.
TotalScoreIsZero(history, listed, now) ==
  \A p \in listed : entry_frecency(history[p], now).num = 0

ClosedPanel == [open |-> FALSE, paths |-> {}]

OpenPanel(paths) == [open |-> TRUE, paths |-> paths]

----------------------------------------------------------------------------
(* Bounds and the inputs drawn from them. *)

\* Calls of record_seen_path_in_window in a behaviour of Spec.
MaxRecordings == 2

\* Views per window.
MaxViews == 1

\* The setting max_master_entries.
MaxEntries == 2

Paths == {1, 2}

Windows == {1}

Times == {0, 1}

\* The entries another process may have persisted.
ForeignEntries == {Entry(0, 1, 2)}

\* The histories over the paths ps in the order of the paths (the order
\* json.dump(sort_keys=True) writes), with entries drawn from es.
SortedHistories(ps, es) ==
  UNION {{SortKeys([i \in 1..Cardinality(S) |->
                      Item(SetToSortedSeq(S)[i], f[SetToSortedSeq(S)[i]])]) :
            f \in [S -> es]} : S \in SUBSET ps}

\* The histories over the paths ps in every insertion order.
Histories(ps, es) ==
  UNION {{h \in [1..k -> {Item(q, e) : q \in ps, e \in es}] :
            \A i, j \in 1..k : i # j => h[i].path # h[j].path} :
         k \in 0..Cardinality(ps)}

\* The files an earlier run or another process may leave at the history path.
ForeignFiles ==
  {MissingFile, InvalidFile}
    \cup {JsonFile(h) : h \in SortedHistories(Paths, ForeignEntries)}

\* The views a window may hold when it is populated: views of files that
\* exist.  (A view without a file name, or of a file that is gone, is skipped
\* by record_view_in_window: a list with such a view populates the window as
\* the list without it does.)
ViewsOf(w, ps) == {View(q, w, TRUE) : q \in ps}

\* window.views(): up to MaxViews views.
ViewLists(w) == UNION {[1..k -> ViewsOf(w, Paths)] : k \in 0..MaxViews}

\* What the host answers during load_and_populate_state_from_file: per
\* window, the paths under its folders and its views, and the clock read as
\* now and then as created.
Hosts(now, created) ==
  {h \in [Windows -> [under : SUBSET Paths, views : UNION {ViewLists(w) : w \in Windows},
                      now : {now}, created : {created}]] :
     \A w \in Windows : \A i \in DOMAIN h[w].views : h[w].views[i].window = w}

----------------------------------------------------------------------------
(* The state machine. *)

\* What a handler did, for `last`.
Did(op, path, world) ==
  [op |-> op, path |-> path, recorded |-> world.recorded,
   saved |-> world.saved, wrote |-> world.wrote, raised |-> world.raised,
   opened |-> world.opened]

\* The world a handler starts in.
Here == World(global_state, disk)

\* global_state as the module builds it (lines 94-116).
InitialGlobalState ==
  [master_history |-> <<>>,
   window_histories |-> [w \in Windows |-> EmptyWindowHistory],
   active |-> FALSE,
   paths_to_remove |-> {},
   save_cycle |-> true_every(SAVE_EVERY)]

\* The module is loaded; the file is whatever an earlier run or another
\* process left.
Init ==
  /\ global_state = InitialGlobalState
  /\ disk \in ForeignFiles
  /\ clock = 0
  /\ panel = [w \in Windows |-> ClosedPanel]
  /\ recordings = 0
  /\ last = Did("init", None, Here)

\* The world after a handler becomes the state.
Becomes(world, op, path) ==
  /\ global_state' = world.gs
  /\ disk' = world.disk
  /\ recordings' = recordings + world.recorded
  /\ last' = Did(op, path, world)

\* OpenFrecentFileEvent.on_activated_async(view): the clock is read as now,
\* and again (created) if the entry is made.
OnActivated(view, created, n) ==
  /\ created >= clock
  /\ Becomes(record_view_in_window(Here, view, clock, created, n),
             "on_activated", view.path)
  /\ clock' = created
  /\ UNCHANGED panel

\* OpenFrecentFileCommand.__init__: the host makes one command per window,
\* and each loads the file and populates every window.
CommandInit(host, n) ==
  /\ Becomes(load_and_populate_state_from_file(Here, SetToSortedSeq(Windows), host, n),
             "command_init", None)
  /\ clock' = host[CHOOSE w \in Windows : \A v \in Windows : v <= w].created
  /\ UNCHANGED panel

\* OpenFrecentFileCommand.run(use_master, open_status_filter) in window w.
\* A listing that is not empty and whose scores are all zero divides by
\* total_score = 0: ZeroDivisionError leaves run() before the panel is shown.
Run(w, use_master, open_status_filter, open_paths) ==
  /\ ~panel[w].open
  /\ LET history == PanelHistory(global_state, w, use_master)
         listed == get_data_list_for_panel(DOMAIN history, open_paths, open_status_filter)
         raises == listed # {} /\ TotalScoreIsZero(history, listed, clock)
     IN /\ global_state' = IF raises THEN global_state
                           ELSE [global_state EXCEPT !.active = TRUE]
        /\ panel' = IF raises THEN panel ELSE [panel EXCEPT ![w] = OpenPanel(listed)]
        /\ last' = Did("run", None, [Here EXCEPT !.raised = raises])
  /\ UNCHANGED <<disk, clock, recordings>>

\* preview_selection collecting the garbage at once, as open_file does.
PreviewSelectionFlushing(w, selected, show_file_preview, exists) ==
  /\ panel[w].open
  /\ selected \in panel[w].paths \cup {None}
  /\ global_state' =
       IF selected # None /\ show_file_preview
       THEN remove_paths_to_remove(historied_path_exists(global_state, selected, exists))
       ELSE global_state
  /\ last' = Did("preview_selection", selected,
                 [Here EXCEPT !.opened = IF selected # None /\ show_file_preview /\ exists
                                         THEN selected ELSE None])
  /\ UNCHANGED <<disk, clock, panel, recordings>>

\* OpenFrecentFileCommand.preview_selection(entry_data_list, selected_index):
\* selected is the path at selected_index, or None for an index below 0.
PreviewSelection(w, selected, show_file_preview, exists) ==
  /\ panel[w].open
  /\ selected \in panel[w].paths \cup {None}
  /\ global_state' =
       IF selected # None /\ show_file_preview
       THEN historied_path_exists(global_state, selected, exists)
       ELSE global_state
  /\ last' = Did("preview_selection", selected,
                 [Here EXCEPT !.opened = IF selected # None /\ show_file_preview /\ exists
                                         THEN selected ELSE None])
  /\ UNCHANGED <<disk, clock, panel, recordings>>

\* open_file clearing the flag only on the branch that opens a file.
OpenFileKeepingFlagOnCancel(w, selected, exists) ==
  /\ panel[w].open
  /\ selected \in panel[w].paths \cup {None}
  /\ LET checked == IF selected = None THEN global_state
                    ELSE historied_path_exists(
                           [global_state EXCEPT !.active = FALSE], selected, exists)
     IN global_state' = remove_paths_to_remove(checked)
  /\ panel' = [panel EXCEPT ![w] = ClosedPanel]
  /\ last' = Did("open_file", selected,
                 [Here EXCEPT !.opened = IF selected # None /\ exists
                                         THEN selected ELSE None])
  /\ UNCHANGED <<disk, clock, recordings>>

\* OpenFrecentFileCommand.open_file(entry_data_list, original_view,
\* selected_index): the panel's on_done, which closes the panel.
OpenFile(w, selected, exists) ==
  /\ panel[w].open
  /\ selected \in panel[w].paths \cup {None}
  /\ LET cleared == [global_state EXCEPT !.active = FALSE]
         checked == IF selected = None THEN cleared
                    ELSE historied_path_exists(cleared, selected, exists)
     IN global_state' = remove_paths_to_remove(checked)
  /\ panel' = [panel EXCEPT ![w] = ClosedPanel]
  /\ last' = Did("open_file", selected,
                 [Here EXCEPT !.opened = IF selected # None /\ exists
                                         THEN selected ELSE None])
  /\ UNCHANGED <<disk, clock, recordings>>

\* Short behaviours over every handler: the file is the one found at start.
Next ==
  \/ \E w \in Windows \cup {None}, q \in Paths \cup {None}, ex \in BOOLEAN,
        created \in Times :
       /\ recordings < MaxRecordings
       /\ OnActivated(View(q, w, ex), created, MaxEntries)
  \/ \E created \in {t \in Times : t >= clock} :
       \E host \in Hosts(clock, created) :
         /\ recordings + Cardinality(Windows) * MaxViews <= MaxRecordings
         /\ CommandInit(host, MaxEntries)
  \/ \E w \in Windows, use_master \in BOOLEAN,
        f \in OpenStatusFilter \cup {"other"}, open_paths \in SUBSET Paths :
       Run(w, use_master, f, open_paths)
  \/ \E w \in Windows, selected \in Paths \cup {None}, show \in BOOLEAN, ex \in BOOLEAN :
       PreviewSelection(w, selected, show, ex)
  \/ \E w \in Windows, selected \in Paths \cup {None}, ex \in BOOLEAN :
       OpenFile(w, selected, ex)

Spec == Init /\ [][Next]_vars

----------------------------------------------------------------------------
(* The same handlers when the file found at start holds entries that were  *)
(* never visited (inserts = 0), as any JSON file at the history path may.  *)

UnvisitedEntries == {Entry(0, 1, 0)}

UnvisitedFiles ==
  {JsonFile(h) : h \in SortedHistories(Paths, UnvisitedEntries)} \ {JsonFile(<<>>)}

InitUnvisited ==
  /\ global_state = InitialGlobalState
  /\ disk \in UnvisitedFiles
  /\ clock = 0
  /\ panel = [w \in Windows |-> ClosedPanel]
  /\ recordings = 0
  /\ last = Did("init", None, Here)

SpecUnvisited == InitUnvisited /\ [][Next]_vars

----------------------------------------------------------------------------
(* Long behaviours: recordings up to and past two turns of the save cycle, *)
(* in one window, with the panel opened and closed in between; the file is *)
(* written by the saves alone.                                              *)

MaxLongRecordings == 101

\* The second file is visited only among the first recordings.
MaxOtherRecordings == 2

InitLong ==
  /\ Init
  /\ disk = MissingFile

NextLong ==
  \/ \E w \in Windows \cup {None}, q \in Paths \cup {None}, ex \in BOOLEAN,
        n \in 1..MaxEntries :
       /\ recordings < MaxLongRecordings
       /\ q # 1 => recordings < MaxOtherRecordings
       /\ OnActivated(View(q, w, ex), clock, n)
  \/ Run(1, TRUE, "both", {})
  \/ \E selected \in Paths \cup {None}, ex \in BOOLEAN : OpenFile(1, selected, ex)

SpecLong == InitLong /\ [][NextLong]_vars

----------------------------------------------------------------------------
(* The functions of the store applied once to drawn inputs: a master       *)
(* history with pending removals, a persisted file, a time and a limit.    *)

\* The big histories hold up to MaxBig entries.
MaxBig == 10

FnPaths == {1, 2, 3}

\* Entries of the master history, and of the file, around the tiers of
\* recency_score.
MemEntries == {Entry(1000, 2000, 3), Entry(500, 1000, 1), Entry(2000, 600000, 1)}

DiskEntries == {Entry(1000, 1000, 1), Entry(500, 600000, 4)}

FnTimes == {2050, 603000, 700000}

\* paths lo..hi, each seen once at time 1000.
BigHistory(k) == [i \in 1..k |-> Item(i, Entry(1000, 1000, 1))]

\* The global state with master history h and pending removals gone, every
\* window sharing every entry.
FnGlobalState(h, gone) ==
  [InitialGlobalState EXCEPT
     !.master_history = h,
     !.window_histories = [w \in Windows |-> WindowHistory(Keys(h), <<>>)],
     !.paths_to_remove = gone]

InitFn ==
  /\ \/ /\ global_state \in {FnGlobalState(h, gone) :
                               h \in Histories(FnPaths, MemEntries),
                               gone \in {{}, {1}}}
        /\ disk \in {MissingFile, InvalidFile}
                      \cup {JsonFile(h) : h \in SortedHistories({1, 2}, DiskEntries)}
     \/ /\ global_state \in {FnGlobalState(BigHistory(k), {}) : k \in 0..MaxBig}
        /\ disk \in {JsonFile(BigHistory(m)) : m \in 0..MaxBig}
  /\ clock \in FnTimes
  /\ panel = [w \in Windows |-> ClosedPanel]
  /\ recordings = 0
  /\ last = [op |-> "init"]

\* merge_histories(mergee, merger) and merge_histories(merger, mergee), for
\* the file's history as mergee and the master history as merger.
FnMerge ==
  /\ last.op = "init" /\ disk.kind = "json"
  /\ last' = [op |-> "merge_histories",
              result |-> merge_histories(disk.data, global_state.master_history),
              swapped |-> merge_histories(global_state.master_history, disk.data)]
  /\ UNCHANGED <<global_state, disk, clock, panel, recordings>>

\* load_master_history_from_file(store_path)
FnLoad ==
  /\ last.op = "init"
  /\ LET world == load_master_history_from_file(Here)
     IN /\ global_state' = world.gs
        /\ last' = [op |-> "load", before |-> global_state, raised |-> world.raised]
  /\ UNCHANGED <<disk, clock, panel, recordings>>

\* save_master_history_to_file(store_path, now) with max_master_entries = n.
FnSave(n) ==
  /\ last.op = "init"
  /\ LET world == save_master_history_to_file(Here, n, clock)
     IN /\ global_state' = world.gs
        /\ disk' = world.disk
        /\ last' = [op |-> "save", before |-> global_state, stored |-> disk,
                    n |-> n, wrote |-> world.wrote]
  /\ UNCHANGED <<clock, panel, recordings>>

\* limit_entries(master_history, n, now)
FnLimit(n) ==
  /\ last.op = "init"
  /\ last' = [op |-> "limit_entries", n |-> n,
              result |-> limit_entries(global_state.master_history, n, clock)]
  /\ UNCHANGED <<global_state, disk, clock, panel, recordings>>

\* run(use_master=True, open_status_filter) up to its listing (lines
\* 384-400): the filter, converted or kept as it came, and the paths that
\* get_data_list_for_panel yields for the master history.
FnListing(open_status_filter, open_paths) ==
  /\ last.op = "init"
  /\ last' = [op |-> "get_data_list_for_panel",
              open_status_filter |-> open_status_filter,
              open_paths |-> open_paths,
              listed |-> get_data_list_for_panel(
                           DOMAIN PanelHistory(global_state, 1, TRUE),
                           open_paths, open_status_filter)]
  /\ UNCHANGED <<global_state, disk, clock, panel, recordings>>

NextFn ==
  \/ FnMerge
  \/ FnLoad
  \/ \E n \in 1..MaxEntries \cup {MaxBig} : FnSave(n)
  \/ \E n \in 1..MaxEntries \cup {MaxBig} : FnLimit(n)
  \/ \E f \in OpenStatusFilter \cup {"other"}, open_paths \in SUBSET FnPaths :
       FnListing(f, open_paths)

SpecFn == InitFn /\ [][NextFn]_vars

----------------------------------------------------------------------------
(* entry_frecency applied to entries of drawn age and visit count, the ages *)
(* around the clamp and around the tiers of recency_score.                  *)

\* The highest visit count drawn.
MaxCount == 5

Ages == {10, 99, 100, 101, SECONDS_PER_HOUR - 1, SECONDS_PER_HOUR,
         SECONDS_PER_HOUR + 1, SECONDS_PER_DAY - 1, SECONDS_PER_DAY,
         SECONDS_PER_DAY + 1, SECONDS_PER_WEEK - 1, SECONDS_PER_WEEK,
         SECONDS_PER_WEEK + 1}

ScoreTimes == {100000, 700000}

\* entry_frecency(entry, now)
EntryFrecency(entry, now) ==
  /\ last' = [op |-> "entry_frecency", entry |-> entry, now |-> now,
              score |-> entry_frecency(entry, now)]
  /\ UNCHANGED <<global_state, disk, clock, panel, recordings>>

NextScore ==
  \E now \in ScoreTimes, age \in Ages, count \in 0..MaxCount :
    /\ now - age >= 0
    /\ EntryFrecency(Entry(now - age, now - age, count), now)

SpecScore == InitLong /\ [][NextScore]_vars

----------------------------------------------------------------------------
(* The claims. *)

\* The fields a merge gives a path both histories hold.
Combined(e, f) ==
  Entry(Min(e.added, f.added), Max(e.last_seen, f.last_seen), Max(e.inserts, f.inserts))

\* C1: merge_histories gives every path of both histories last_seen = max,
\* inserts = max and added = min of the two entries, so merging in either
\* direction gives a shared path the same fields; the load, which merges the
\* master history into the file's history, leaves a shared path so combined.
C1_MergeCombinesSharedPaths ==
  /\ last.op = "merge_histories" =>
       \A q \in Keys(disk.data) \cap Keys(global_state.master_history) :
         /\ Get(last.result, q) =
              Combined(Get(disk.data, q), Get(global_state.master_history, q))
         /\ Get(last.swapped, q) = Get(last.result, q)
  /\ (last.op = "load" /\ disk.kind = "json") =>
       \A q \in Keys(disk.data) \cap Keys(last.before.master_history) :
         Get(global_state.master_history, q) =
           Combined(Get(disk.data, q), Get(last.before.master_history, q))

\* C1 happens: a load met a path whose added comes from the file and whose
\* last_seen comes from the master history.
C1_Witness ==
  /\ last.op = "load" /\ disk.kind = "json"
  /\ Has(disk.data, 1) /\ Has(last.before.master_history, 1)
  /\ Get(disk.data, 1) = Entry(1000, 1000, 1)
  /\ Get(last.before.master_history, 1) = Entry(2000, 600000, 1)
  /\ Get(global_state.master_history, 1) = Entry(1000, 600000, 1)

\* C2: the merged history holds every path of the mergee and of the merger,
\* and the master history after a load holds every path it held before the
\* load and every path of the persisted file.
C2_MergeIsSuperset ==
  /\ last.op = "merge_histories" =>
       /\ Keys(disk.data) \cup Keys(global_state.master_history) \subseteq Keys(last.result)
       /\ Keys(disk.data) \cup Keys(global_state.master_history) \subseteq Keys(last.swapped)
  /\ last.op = "load" =>
       Keys(last.before.master_history) \cup Keys(disk.data)
         \subseteq Keys(global_state.master_history)

\* C2 happens: a load of a file with a path the master history lacked, into
\* a master history with a path the file lacks.
C2_Witness ==
  /\ last.op = "load"
  /\ Keys(disk.data) \ Keys(last.before.master_history) # {}
  /\ Keys(last.before.master_history) \ Keys(disk.data) # {}

\* C3, as claimed: a save that writes keeps every path of the file that the
\* master history lacks, and writes the paths of both with the merged fields.
C3_SaveMergesWithDisk ==
  (last.op = "save" /\ last.wrote) =>
    /\ \A q \in Keys(last.stored.data) \ Keys(last.before.master_history) :
         Has(disk.data, q)
    /\ \A q \in Keys(last.stored.data) \cap Keys(disk.data) :
         Has(last.before.master_history, q) =>
           Get(disk.data, q) =
             Combined(Get(last.stored.data, q), Get(last.before.master_history, q))

\* The count a save is about to write: the master history after the flush,
\* cut to max_master_entries.
AboutToWrite == Min(last.n, Len(global_state.master_history))

C5_LimitKeepsTopScores ==
  last.op = "limit_entries" =>
    LET entries == global_state.master_history
        kept == Keys(last.result)
    IN /\ Len(last.result) = Min(last.n, Len(entries))
       /\ Cardinality(kept) = Len(last.result)
       /\ \A q \in kept : Has(entries, q) /\ Get(last.result, q) = Get(entries, q)
       /\ \A q \in kept : \A d \in Keys(entries) \ kept :
            ScoreGeq(entry_frecency(Get(entries, q), clock),
                     entry_frecency(Get(entries, d), clock))

\* C5 happens: an entry was dropped that scores strictly below a kept one,
\* and the kept one was inserted after it.
C5_Witness ==
  /\ last.op = "limit_entries"
  /\ \E i, j \in 1..Len(global_state.master_history) :
       LET a == global_state.master_history[i]
           b == global_state.master_history[j]
       IN /\ i < j
          /\ ~Has(last.result, a.path) /\ Has(last.result, b.path)
          /\ ScoreLess(entry_frecency(a.entry, clock), entry_frecency(b.entry, clock))

\* C6: a save, written or skipped, leaves in the master history every entry
\* it held before the save except those of the pending removals, in the order
\* it held them: the limit is applied to the snapshot alone.
C6_SaveKeepsMasterHistory ==
  last.op = "save" =>
    LET before == last.before.master_history
        gone == last.before.paths_to_remove
        stay == {i \in 1..Len(before) : before[i].path \notin gone}
    IN /\ Len(global_state.master_history) = Cardinality(stay)
       /\ \A i \in stay :
            /\ Has(global_state.master_history, before[i].path)
            /\ Get(global_state.master_history, before[i].path) = before[i].entry
       /\ global_state.paths_to_remove = gone

\* C6 happens: a save wrote fewer entries than the master history still holds.
C6_Witness ==
  /\ last.op = "save" /\ last.wrote
  /\ Len(global_state.master_history) > last.n
  /\ Len(disk.data) = last.n
  /\ last.before.paths_to_remove # {}

\* inserts of path q in history h, 0 for a path it lacks.
Inserts(h, q) == IF Has(h, q) THEN Get(h, q).inserts ELSE 0

\* C7: a recorded visit adds exactly 1 to the inserts of its path (a path the
\* master history lacks gets 1) and leaves the inserts of every other path as
\* they were, unless the save it triggers removes the path as pending.
C7_RecordingAddsOne ==
  [][ (last'.op = "on_activated" /\ last'.recorded = 1) =>
        LET before == global_state.master_history
            after == global_state'.master_history
            gone == IF last'.saved = 1 THEN global_state.paths_to_remove ELSE {}
        IN /\ last'.path \notin gone =>
                /\ Has(after, last'.path)
                /\ Inserts(after, last'.path) = Inserts(before, last'.path) + 1
           /\ \A q \in Keys(before) \ ({last'.path} \cup gone) :
                Has(after, q) /\ Inserts(after, q) = Inserts(before, q)
           /\ Keys(after) \subseteq Keys(before) \cup {last'.path} ]_vars

\* C7 happens: of 60 recordings, the 59 of path 1 left its inserts at 59 and
\* the one of path 2 left its inserts at 1.
C7_Witness ==
  /\ last.op = "on_activated" /\ last.recorded = 1 /\ last.path = 1
  /\ recordings = 60
  /\ Inserts(global_state.master_history, 1) = 59
  /\ Inserts(global_state.master_history, 2) = 1

\* Whether record_view_in_window is to record the view.
Tracked(view) ==
  /\ view.path # None
  /\ view.window # None
  /\ ~global_state.active
  /\ view.exists

\* C8: a view that arrives while the selector is active, or has no path or no
\* window, or whose path does not exist, changes nothing: the master history,
\* the window histories, the save cycle and the file stay as they are and no
\* save runs.
C8_UntrackedViewChangesNothing ==
  [][ \A w \in Windows \cup {None}, q \in Paths \cup {None}, ex \in BOOLEAN,
         n \in 1..MaxEntries :
        (/\ last'.op = "on_activated" /\ last'.path = q
         /\ ~Tracked(View(q, w, ex))
         /\ OnActivated(View(q, w, ex), clock', n)) =>
          /\ UNCHANGED <<global_state, disk, recordings>>
          /\ last'.recorded = 0 /\ last'.saved = 0 ]_vars

\* C8 happens: a view of a path arrived while the selector was active, when
\* one more recording would have run the save.
C8_Witness ==
  /\ last.op = "on_activated" /\ last.path # None
  /\ last.recorded = 0
  /\ global_state.active
  /\ global_state.save_cycle = SAVE_EVERY - 1

\* C9: open_file, the one completion of the flow that run() starts, leaves
\* the selector-active flag False whatever was selected.
C9_CompletionClearsActive ==
  last.op = "open_file" => ~global_state.active

\* C9 happens: the flow was cancelled (no selection) and the flag is False.
C9_Witness ==
  /\ last.op = "open_file" /\ last.path = None
  /\ ~global_state.active
  /\ \A w \in Windows : ~panel[w].open

\* C10: a recording runs the save exactly when it is the 50th, 100th, ...
\* call of record_seen_path_in_window, and nothing else runs it.
C10_SaveEvery50thRecording ==
  /\ last.op = "on_activated" =>
       /\ last.saved = 1 <=> (last.recorded = 1 /\ recordings % SAVE_EVERY = 0)
       /\ last.saved \in {0, 1}
  /\ last.op # "on_activated" => last.saved = 0

\* C10 happens: the 100th recording ran the second save.
C10_Witness ==
  /\ last.op = "on_activated" /\ last.saved = 1
  /\ recordings = 100

\* The histories: the master history and every window history.
HistoriesOf(gs) == <<gs.master_history, gs.window_histories>>

\* The cancelling call of open_file has just returned.
Cancelled == last.op = "open_file" /\ last.path = None

\* C11 as claimed: no preview and no cancelling open_file changes the master
\* history or a window history, so that after a cancellation they are as they
\* were when the selector was opened.
C11_CancelKeepsHistories ==
  [][ (last'.op = "preview_selection" \/ Cancelled') =>
        HistoriesOf(global_state') = HistoriesOf(global_state) ]_vars

\* C11 amended: a preview changes no history; the cancelling open_file removes
\* every pending path from the master history and from every window history,
\* and changes nothing else of them.
C11_CancelRemovesOnlyPending ==
  [][ /\ last'.op = "preview_selection" =>
           HistoriesOf(global_state') = HistoriesOf(global_state)
      /\ Cancelled' =>
           LET gone == global_state.paths_to_remove
           IN /\ global_state'.paths_to_remove = gone
              /\ global_state'.master_history =
                   SelectSeq(global_state.master_history,
                             LAMBDA it : it.path \notin gone)
              /\ \A w \in Windows :
                   LET before == global_state.window_histories[w]
                       after == global_state'.window_histories[w]
                   IN /\ after.shared = before.shared \ gone
                      /\ DOMAIN after.stale = DOMAIN before.stale \ gone
                      /\ \A q \in DOMAIN after.stale : after.stale[q] = before.stale[q]
    ]_vars

\* C11 happens: a cancellation has removed a path that a preview or a
\* selection found missing, and kept another.
C11_Witness ==
  /\ Cancelled
  /\ global_state.paths_to_remove # {}
  /\ global_state.master_history # <<>>

\* Path q is in no history of gs and in no listing run() can make of them.
Dropped(gs, q) ==
  /\ ~Has(gs.master_history, q)
  /\ \A w \in Windows :
       /\ q \notin WindowKeys(gs.window_histories[w])
       /\ \A use_master \in BOOLEAN, f \in OpenStatusFilter, open_paths \in SUBSET Paths :
            q \notin get_data_list_for_panel(
                       DOMAIN PanelHistory(gs, w, use_master), open_paths, f)

\* C12: a preview (with previews shown) or a selection of a listed path that
\* does not exist puts the path into paths_to_remove and opens no view; and
\* when open_file has flushed, every pending path is gone from the master
\* history, from every window history and from every listing.
C12_MissingPathIsDropped ==
  [][ /\ \A w \in Windows, q \in Paths :
           (/\ last'.path = q
            /\ \/ last'.op = "preview_selection" /\ PreviewSelection(w, q, TRUE, FALSE)
               \/ last'.op = "open_file" /\ OpenFile(w, q, FALSE)) =>
             /\ q \in global_state'.paths_to_remove
             /\ last'.opened = None
      /\ last'.op = "open_file" =>
           \A q \in global_state'.paths_to_remove : Dropped(global_state', q)
    ]_vars

\* C12 happens: a preview found its path missing, and the path is pending
\* and still in the master history.
C12_Witness ==
  /\ last.op = "preview_selection"
  /\ last.path \in global_state.paths_to_remove
  /\ last.opened = None
  /\ Has(global_state.master_history, last.path)

\* C13: load_master_history_from_file returns without raising whatever the
\* file is, and a file that is missing or is not JSON leaves the master
\* history as it was.
C13_LoadNeverRaises ==
  last.op = "load" =>
    /\ ~last.raised
    /\ disk.kind # "json" =>
         global_state.master_history = last.before.master_history

\* C14: when run() lists nothing, or only entries whose score is 0, it does
\* not raise and shows an empty display list.
C14_ZeroTotalIsGuarded ==
  [][ \A w \in Windows, use_master \in BOOLEAN,
         f \in OpenStatusFilter \cup {"other"}, open_paths \in SUBSET Paths :
        LET history == PanelHistory(global_state, w, use_master)
            listed == get_data_list_for_panel(DOMAIN history, open_paths, f)
        IN (Run(w, use_master, f, open_paths)
              /\ TotalScoreIsZero(history, listed, clock)) =>
             /\ ~last'.raised
             /\ panel'[w] = OpenPanel({})
    ]_vars

\* C15: a filter that is no member of OpenStatusFilter lists what "both"
\* lists, every path of the history, open or not; "opened" lists the paths
\* the host finds open and "closed" the paths it does not.
C15_UnknownFilterListsBoth ==
  last.op = "get_data_list_for_panel" =>
    LET keys == Keys(global_state.master_history)
        both == get_data_list_for_panel(keys, last.open_paths, "both")
    IN /\ both = keys
       /\ last.open_status_filter \notin OpenStatusFilter => last.listed = both
       /\ last.open_status_filter = "opened" => last.listed = keys \cap last.open_paths
       /\ last.open_status_filter = "closed" => last.listed = keys \ last.open_paths

\* C15 happens: an unknown filter listed an open path and a closed one.
C15_Witness ==
  /\ last.op = "get_data_list_for_panel"
  /\ last.open_status_filter \notin OpenStatusFilter
  /\ last.listed \cap last.open_paths # {}
  /\ last.listed \ last.open_paths # {}

\* C16: when load_and_populate_state_from_file runs, a path that every window
\* history already holds gets no visit recorded: its inserts become what the
\* load's merge with the file makes them, and no more.
C16_PopulatingRecordsOnlyNewPaths ==
  [][ (last'.op = "command_init" /\ ~last'.raised) =>
        \A q \in Paths :
          (/\ Has(global_state.master_history, q)
           /\ \A w \in Windows : q \in WindowKeys(global_state.window_histories[w])) =>
            Inserts(global_state'.master_history, q) =
              Max(Inserts(global_state.master_history, q), Inserts(disk.data, q))
    ]_vars

\* C17: with the age clamped to at least 100 seconds, the score of an entry
\* is strictly higher for every higher visit count at the same age, and, for
\* a visit count above 0, strictly lower for every higher age beyond a tier
\* boundary (an hour, a day, a week); now = 100000, last_seen = 99990,
\* inserts = 5 score 0.3 (age 100, tier 6).
C17_ScoreIsMonotone ==
  last.op = "entry_frecency" =>
    LET now == last.now
        age == Max(100, now - last.entry.last_seen)
        count == last.entry.inserts
        At(a, c) == entry_frecency(Entry(now - a, now - a, c), now)
    IN /\ last.score.den > 0
       /\ \A c \in 0..MaxCount : c > count => ScoreLess(last.score, At(age, c))
       /\ count > 0 =>
            \A a \in Ages :
              (/\ now - a >= 0
               /\ \E b \in {SECONDS_PER_HOUR, SECONDS_PER_DAY, SECONDS_PER_WEEK} :
                    age < b /\ b <= a) =>
                ScoreLess(At(a, count), last.score)
       /\ (now = 100000 /\ last.entry.last_seen = 99990 /\ count = 5) =>
            /\ recency_score(age) = 6
            /\ last.score.num * 10 = 3 * last.score.den

\* C17 happens: the example of the claim has been scored.
C17_Witness ==
  /\ last.op = "entry_frecency"
  /\ last.now = 100000 /\ last.entry.last_seen = 99990 /\ last.entry.inserts = 5
  /\ last.score = [num |-> 30, den |-> 100]

\* C18: limit_entries applied to its own result, with the same n and now,
\* gives that result again: the same paths with the same entries, in the
\* same order (the order the dict lists them in).
C18_LimitIsIdempotent ==
  last.op = "limit_entries" =>
    LET again == limit_entries(last.result, last.n, clock)
    IN /\ AsMap(again) = AsMap(last.result)
       /\ again = last.result

\* C18 happens: limit_entries dropped an entry whose score ties with the
\* last one it kept.
C18_Witness ==
  /\ last.op = "limit_entries"
  /\ last.result # <<>>
  /\ \E i \in 1..Len(global_state.master_history) :
       LET it == global_state.master_history[i]
           kept == last.result[Len(last.result)]
       IN /\ ~Has(last.result, it.path)
          /\ ~ScoreLess(entry_frecency(it.entry, clock), entry_frecency(kept.entry, clock))
          /\ ~ScoreLess(entry_frecency(kept.entry, clock), entry_frecency(it.entry, clock))

\* C19: a save that writes puts no path into the file that was pending
\* removal when the save began: the pending paths have left the master
\* history, and the file holds paths of the master history only.
C19_SaveWritesNoPendingPath ==
  (last.op = "save" /\ last.wrote) =>
    /\ Keys(disk.data) \cap last.before.paths_to_remove = {}
    /\ Keys(global_state.master_history) \cap last.before.paths_to_remove = {}
    /\ Keys(disk.data) \subseteq Keys(global_state.master_history)

\* C19 happens: a save wrote a file although a path of the master history
\* was pending removal.
C19_Witness ==
  /\ last.op = "save" /\ last.wrote
  /\ Keys(last.before.master_history) \cap last.before.paths_to_remove # {}
  /\ disk.data # <<>>

\* C20: in every state, every path of every window history has the master
\* history's own entry for that path as its value: no window history holds
\* an entry object that the master history does not hold.
C20_EntriesAreShared ==
  \A w \in Windows :
    LET wh == global_state.window_histories[w]
    IN /\ DOMAIN wh.stale = {}
       /\ \A q \in wh.shared : Has(global_state.master_history, q)

\* C21: in every state, every entry of the master history has
\* added <= last_seen (the entries of the file found at start have).
C21_AddedNotAfterLastSeen ==
  \A i \in 1..Len(global_state.master_history) :
    global_state.master_history[i].entry.added
      <= global_state.master_history[i].entry.last_seen

\* C22: no step makes the last_seen of a path that stays in the master
\* history smaller than it was.
C22_LastSeenNeverDecreases ==
  [][ \A q \in Keys(global_state.master_history) \cap Keys(global_state'.master_history) :
        Get(global_state'.master_history, q).last_seen
          >= Get(global_state.master_history, q).last_seen ]_vars

\* C23: in every state, every path that is a key of a window history is a
\* key of the master history.
C23_WindowKeysAreMasterKeys ==
  \A w \in Windows :
    WindowKeys(global_state.window_histories[w]) \subseteq Keys(global_state.master_history)

\* C23 happens: a flush has removed a pending path from a window history that
\* still holds another path, whose entry a load has replaced in the master
\* history.
C23_Witness ==
  /\ last.op = "open_file"
  /\ global_state.paths_to_remove # {}
  /\ \E w \in Windows : DOMAIN global_state.window_histories[w].stale # {}

\* C24: when remove_paths_to_remove has run (at the end of open_file, or at
\* the start of a save), the pending-removal set is empty, so that a later
\* flush removes no path found missing before this one.
C24_FlushEmptiesPending ==
  (last.op = "open_file" \/ last.saved > 0) => global_state.paths_to_remove = {}

============================================================================
